---- MODULE Spec2Model ----
(***************************************************************************)
(* Model of the gzip file compressor in src/src/main.rs: main() and        *)
(* compress_file(), one action per statement that can fail or that changes *)
(* observable state.  The file system holds two paths; a file is absent,   *)
(* raw bytes, a gzip stream of which only a part has reached the disk, or  *)
(* a finished gzip stream.  Elapsed time is not modelled.                  *)
(***************************************************************************)
EXTENDS Integers, Sequences, FiniteSets, TLC

VARIABLES fs0, fs, source, target, compression, show_progress, pc,
          file_size, input_pos, buffer, len, encoder_in, total_read,
          finalized, target_size, source_size, stats, errors, failed,
          exit_code, summary_printed, error_printed, prev

vars == <<fs0, fs, source, target, compression, show_progress, pc,
          file_size, input_pos, buffer, len, encoder_in, total_read,
          finalized, target_size, source_size, stats, errors, failed,
          exit_code, summary_printed, error_printed, prev>>

args == <<fs0, source, target, compression, show_progress>>

\* ---------------------------------------------------------------- bounds
\* longest source file content
MaxLen == 3
\* length of the chunk buffer of the progress loop (1024 * 1024 in the code)
BufferLen == 2
\* length of the buffer io::copy reads through (8 KiB in std)
CopyBufLen == 1

Byte == {0, 1}
Paths == {"in.txt", "out.gz"}
LevelArgs == {"fast", "default", "best", "bogus"}

\* ---------------------------------------------------------------- values
None == <<>>
Some(x) == <<x>>

Min(a, b) == IF a < b THEN a ELSE b

SeqsUpTo(n) == UNION {[1..k -> Byte] : k \in 0..n}

\* ------------------------------------------------------------ file system
NoFile == [kind |-> "absent", data |-> <<>>, level |-> 0, cut |-> 0]
Raw(d) == [kind |-> "raw", data |-> d, level |-> 0, cut |-> 0]
\* a gzip stream of which only the first n bytes have reached the disk
GzTruncated(l, n) == [kind |-> "gz_truncated", data |-> <<>>, level |-> l,
                      cut |-> n]
\* n bytes that are no prefix of the stream: a header that was not
\* written whole, followed by bytes of the deflate body
GzPieces(l, n) == [kind |-> "gz_pieces", data |-> <<>>, level |-> l,
                   cut |-> n]
Gz(d, l) == [kind |-> "gz", data |-> d, level |-> l, cut |-> 0]

GzHeaderLen == 10
GzTrailerLen == 8

\* bytes of the deflate body of a short input: one fixed-Huffman block of
\* literals, 3 header bits + 8 bits per byte + 7 end-of-block bits
DeflateLen(d) == ((10 + 8 * Len(d)) + 7) \div 8

\* length of the finished gzip stream of d
GzLen(d) == GzHeaderLen + DeflateLen(d) + GzTrailerLen

\* what metadata().len() reports for a file
FileLen(f) ==
    CASE f.kind = "raw" -> Len(f.data)
      [] f.kind = "gz_truncated" -> f.cut
      [] f.kind = "gz_pieces" -> f.cut
      [] f.kind = "gz" -> GzLen(f.data)
      [] OTHER -> 0

\* Path::exists(): true only if the file is there and its stat succeeded
Exists(p, stat_ok) == fs[p].kind # "absent" /\ stat_ok

\* bytes a read of the source can still return
Remaining == Len(fs[source].data) - input_pos

\* ------------------------------------------------------------- pure code
get_compression_level(level) ==
    CASE level = "fast" -> 1
      [] level = "best" -> 9
      [] OTHER -> 6

Level == get_compression_level(compression)

IoError(cause) == [kind |-> "IoError", cause |-> cause]
InvalidInput(path) == [kind |-> "InvalidInput", cause |-> path]

\* 1.0 - (target_size as f64 / source_size as f64); a finite value is kept
\* as the exact fraction num/den
Ratio(t, s) ==
    IF s = 0
    THEN IF t = 0 THEN [class |-> "nan", num |-> 0, den |-> 1]
                  ELSE [class |-> "neg_infinity", num |-> 0, den |-> 1]
    ELSE [class |-> "finite", num |-> s - t, den |-> s]

CompressionStats(s, t) ==
    [source_size |-> s, target_size |-> t, compression_ratio |-> Ratio(t, s)]

\* buffer[..n] overwritten by the bytes read, the rest kept
FillBuffer(chunk) ==
    [i \in 1..BufferLen |-> IF i <= Len(chunk) THEN chunk[i] ELSE buffer[i]]

\* ------------------------------------------------------------------ init
Init ==
    /\ fs0 \in [Paths -> {NoFile} \cup {Raw(d) : d \in SeqsUpTo(MaxLen)}]
    /\ fs0["out.gz"] \in {NoFile, Raw(<<1>>)}
    /\ fs = fs0
    /\ source \in Paths
    /\ target \in Paths
    /\ compression \in LevelArgs
    /\ show_progress \in BOOLEAN
    /\ pc = "banner"
    /\ file_size = None
    /\ input_pos = 0
    /\ buffer = [i \in 1..BufferLen |-> 0]
    /\ len = 0
    /\ encoder_in = <<>>
    /\ total_read = None
    /\ finalized = FALSE
    /\ target_size = None
    /\ source_size = None
    /\ stats = <<>>
    /\ errors = <<>>
    /\ failed = "none"
    /\ exit_code = None
    /\ summary_printed = FALSE
    /\ error_printed = FALSE
    /\ prev = None

\* --------------------------------------------------------------- helpers
\* `?` on an Err(io::Error): From converts it and the function returns
Fail(step) ==
    /\ errors' = Append(errors, IoError(step))
    /\ failed' = step
    /\ pc' = "returned"

\* GzEncoder dropped unfinished on an early return, having consumed d: its
\* Drop tries to finish the stream and ignores the outcome, and the Drop of
\* the writer inside it flushes the deflate body even when the header could
\* not be written.  The target is left as it is, grown to any cut of the
\* stream, left with a broken header followed by body bytes, or finished
DropEncoder(d) ==
    {fs} \cup
    {[fs EXCEPT ![target] = GzTruncated(Level, n)] :
        n \in FileLen(fs[target])..(GzLen(d) - 1)} \cup
    {[fs EXCEPT ![target] = GzPieces(Level, n)] :
        n \in {h + b : h \in FileLen(fs[target])..(GzHeaderLen - 1),
                       b \in 1..DeflateLen(d)}} \cup
    {[fs EXCEPT ![target] = Gz(d, Level)]}

\* ------------------------------------------------------- compress_file
\* variant: the destination is created before the existence check
CheckExists_CreateFirst ==
    /\ pc = "check_exists"
    /\ fs' = [fs EXCEPT ![target] = Raw(<<>>)]
    /\ \E stat_ok \in BOOLEAN :
          IF ~Exists(source, stat_ok)
          THEN /\ errors' = Append(errors, InvalidInput(source))
               /\ failed' = IF fs[source].kind # "absent" THEN "exists"
                                                          ELSE failed
               /\ pc' = "returned"
          ELSE /\ pc' = "open_source"
               /\ UNCHANGED <<errors, failed>>
    /\ UNCHANGED <<args, file_size, input_pos, buffer, len, encoder_in,
                   total_read, finalized, target_size, source_size, stats,
                   exit_code, summary_printed, error_printed, prev>>

\* if !source_path.exists() { return Err(InvalidInput(..)) }; a stat that
\* fails on a file that is there is a failed file system step
CheckExists ==
    /\ pc = "check_exists"
    /\ \E stat_ok \in BOOLEAN :
          IF ~Exists(source, stat_ok)
          THEN /\ errors' = Append(errors, InvalidInput(source))
               /\ failed' = IF fs[source].kind # "absent" THEN "exists"
                                                          ELSE failed
               /\ pc' = "returned"
          ELSE /\ pc' = "open_source"
               /\ UNCHANGED <<errors, failed>>
    /\ UNCHANGED <<args, fs, file_size, input_pos, buffer, len, encoder_in,
                   total_read, finalized, target_size, source_size, stats,
                   exit_code, summary_printed, error_printed, prev>>

OpenSource ==
    /\ pc = "open_source"
    /\ \/ /\ pc' = "stat_source"
          /\ input_pos' = 0
          /\ UNCHANGED <<errors, failed>>
       \/ /\ Fail("open_source")
          /\ UNCHANGED input_pos
    /\ UNCHANGED <<args, fs, file_size, buffer, len, encoder_in, total_read,
                   finalized, target_size, source_size, stats, exit_code,
                   summary_printed, error_printed, prev>>

StatSource ==
    /\ pc = "stat_source"
    /\ \/ /\ file_size' = Some(FileLen(fs[source]))
          /\ pc' = "create_target"
          /\ UNCHANGED <<errors, failed>>
       \/ /\ Fail("stat_source")
          /\ UNCHANGED file_size
    /\ UNCHANGED <<args, fs, input_pos, buffer, len, encoder_in, total_read,
                   finalized, target_size, source_size, stats, exit_code,
                   summary_printed, error_printed, prev>>

CreateTarget ==
    /\ pc = "create_target"
    /\ \/ /\ fs' = [fs EXCEPT ![target] = Raw(<<>>)]
          /\ pc' = "setup"
          /\ UNCHANGED <<errors, failed>>
       \/ /\ Fail("create_target")
          /\ UNCHANGED fs
    /\ UNCHANGED <<args, file_size, input_pos, buffer, len, encoder_in,
                   total_read, finalized, target_size, source_size, stats,
                   exit_code, summary_printed, error_printed, prev>>

\* GzEncoder::new, the optional progress bar, the buffer and the counter
Setup ==
    /\ pc = "setup"
    /\ encoder_in' = <<>>
    /\ buffer' = [i \in 1..BufferLen |-> 0]
    /\ IF show_progress
       THEN /\ total_read' = Some(0)
            /\ pc' = "loop_read"
       ELSE /\ total_read' = None
            /\ pc' = "copy"
    /\ UNCHANGED <<args, fs, file_size, input_pos, len, finalized,
                   target_size, source_size, stats, errors, failed,
                   exit_code, summary_printed, error_printed, prev>>

\* variant: the loop does not break on a read of zero bytes
ChunkRead_NoBreak ==
    /\ pc = "loop_read"
    /\ \/ /\ Remaining = 0
          /\ len' = 0
          /\ pc' = "loop_write"
          /\ UNCHANGED <<fs, input_pos, buffer, errors, failed>>
       \/ /\ Remaining > 0
          /\ \E n \in 1..Min(BufferLen, Remaining) :
                /\ len' = n
                /\ buffer' = FillBuffer(SubSeq(fs[source].data,
                                               input_pos + 1, input_pos + n))
                /\ input_pos' = input_pos + n
          /\ pc' = "loop_write"
          /\ UNCHANGED <<fs, errors, failed>>
       \/ /\ Fail("read")
          /\ fs' \in DropEncoder(encoder_in)
          /\ UNCHANGED <<input_pos, buffer, len>>
    /\ UNCHANGED <<args, file_size, encoder_in, total_read, finalized,
                   target_size, source_size, stats, exit_code,
                   summary_printed, error_printed, prev>>

\* let len = input.read(&mut buffer)?; if len == 0 { break; }
ChunkRead ==
    /\ pc = "loop_read"
    /\ \/ /\ Remaining = 0
          /\ len' = 0
          /\ pc' = "finish"
          /\ UNCHANGED <<fs, input_pos, buffer, errors, failed>>
       \/ /\ Remaining > 0
          /\ \E n \in 1..Min(BufferLen, Remaining) :
                /\ len' = n
                /\ buffer' = FillBuffer(SubSeq(fs[source].data,
                                               input_pos + 1, input_pos + n))
                /\ input_pos' = input_pos + n
          /\ pc' = "loop_write"
          /\ UNCHANGED <<fs, errors, failed>>
       \/ /\ Fail("read")
          /\ fs' \in DropEncoder(encoder_in)
          /\ UNCHANGED <<input_pos, buffer, len>>
    /\ UNCHANGED <<args, file_size, encoder_in, total_read, finalized,
                   target_size, source_size, stats, exit_code,
                   summary_printed, error_printed, prev>>

\* variant: encoder.write_all(&buffer)?, the whole buffer on a short read
ChunkWrite_WholeBuffer ==
    /\ pc = "loop_write"
    /\ \/ /\ encoder_in' = encoder_in \o buffer
          /\ fs' = [fs EXCEPT ![target] = GzTruncated(Level, GzHeaderLen)]
          /\ pc' = "loop_advance"
          /\ UNCHANGED <<errors, failed>>
       \/ /\ Fail("write")
          /\ \E k \in 0..(len - 1) :
                /\ encoder_in' = encoder_in \o SubSeq(buffer, 1, k)
                /\ fs' \in DropEncoder(encoder_in \o SubSeq(buffer, 1, k))
    /\ UNCHANGED <<args, file_size, input_pos, buffer, len, total_read,
                   finalized, target_size, source_size, stats, exit_code,
                   summary_printed, error_printed, prev>>

\* encoder.write_all(&buffer[..len])?; the first write puts the header on
\* the disk, and a write_all that fails has consumed part of the chunk
ChunkWrite ==
    /\ pc = "loop_write"
    /\ \/ /\ encoder_in' = encoder_in \o SubSeq(buffer, 1, len)
          /\ fs' = [fs EXCEPT ![target] = GzTruncated(Level, GzHeaderLen)]
          /\ pc' = "loop_advance"
          /\ UNCHANGED <<errors, failed>>
       \/ /\ Fail("write")
          /\ \E k \in 0..(len - 1) :
                /\ encoder_in' = encoder_in \o SubSeq(buffer, 1, k)
                /\ fs' \in DropEncoder(encoder_in \o SubSeq(buffer, 1, k))
    /\ UNCHANGED <<args, file_size, input_pos, buffer, len, total_read,
                   finalized, target_size, source_size, stats, exit_code,
                   summary_printed, error_printed, prev>>

\* variant: total_read += buffer.len() as u64
ChunkAdvance_BufferLen ==
    /\ pc = "loop_advance"
    /\ total_read' = Some(total_read[1] + BufferLen)
    /\ pc' = "loop_read"
    /\ UNCHANGED <<args, fs, file_size, input_pos, buffer, len, encoder_in,
                   finalized, target_size, source_size, stats, errors,
                   failed, exit_code, summary_printed, error_printed, prev>>

\* total_read += len as u64; pb.set_position(total_read)
ChunkAdvance ==
    /\ pc = "loop_advance"
    /\ total_read' = Some(total_read[1] + len)
    /\ pc' = "loop_read"
    /\ UNCHANGED <<args, fs, file_size, input_pos, buffer, len, encoder_in,
                   finalized, target_size, source_size, stats, errors,
                   failed, exit_code, summary_printed, error_printed, prev>>

\* copy(&mut input, &mut encoder)?, one iteration of its read/write_all loop
CopyStep ==
    /\ pc = "copy"
    /\ \/ /\ Remaining = 0
          /\ pc' = "finish"
          /\ UNCHANGED <<fs, input_pos, encoder_in, errors, failed>>
       \/ /\ Remaining > 0
          /\ \E n \in 1..Min(CopyBufLen, Remaining) :
                /\ input_pos' = input_pos + n
                /\ \/ /\ encoder_in' = encoder_in \o
                            SubSeq(fs[source].data, input_pos + 1, input_pos + n)
                      /\ fs' = [fs EXCEPT ![target] =
                                    GzTruncated(Level, GzHeaderLen)]
                      /\ pc' = "copy"
                      /\ UNCHANGED <<errors, failed>>
                   \/ /\ Fail("copy")
                      /\ \E k \in 0..(n - 1) :
                            LET d == encoder_in \o
                                     SubSeq(fs[source].data, input_pos + 1,
                                            input_pos + k)
                            IN  /\ encoder_in' = d
                                /\ fs' \in DropEncoder(d)
       \/ /\ Fail("copy")
          /\ fs' \in DropEncoder(encoder_in)
          /\ UNCHANGED <<input_pos, encoder_in>>
    /\ UNCHANGED <<args, file_size, buffer, len, total_read, finalized,
                   target_size, source_size, stats, exit_code,
                   summary_printed, error_printed, prev>>

\* variant: the destination size is read before encoder.finish()
Finish_StatFirst ==
    /\ pc = "finish"
    /\ \/ /\ target_size' = Some(FileLen(fs[target]))
          /\ fs' = [fs EXCEPT ![target] = Gz(encoder_in, Level)]
          /\ finalized' = TRUE
          /\ pc' = "stat_source2"
          /\ UNCHANGED <<errors, failed>>
       \/ /\ Fail("finish")
          /\ fs' \in DropEncoder(encoder_in)
          /\ UNCHANGED <<finalized, target_size>>
    /\ UNCHANGED <<args, file_size, input_pos, buffer, len, encoder_in,
                   total_read, source_size, stats, exit_code,
                   summary_printed, error_printed, prev>>

\* pb.finish_with_message(..); let output = encoder.finish()?
Finish ==
    /\ pc = "finish"
    /\ \/ /\ fs' = [fs EXCEPT ![target] = Gz(encoder_in, Level)]
          /\ finalized' = TRUE
          /\ pc' = "stat_target"
          /\ UNCHANGED <<errors, failed>>
       \/ /\ Fail("finish")
          /\ fs' \in DropEncoder(encoder_in)
          /\ UNCHANGED finalized
    /\ UNCHANGED <<args, file_size, input_pos, buffer, len, encoder_in,
                   total_read, target_size, source_size, stats, exit_code,
                   summary_printed, error_printed, prev>>

\* let target_size = output.metadata()?.len()
StatTarget ==
    /\ pc = "stat_target"
    /\ \/ /\ target_size' = Some(FileLen(fs[target]))
          /\ pc' = "stat_source2"
          /\ UNCHANGED <<errors, failed>>
       \/ /\ Fail("stat_target")
          /\ UNCHANGED target_size
    /\ UNCHANGED <<args, fs, file_size, input_pos, buffer, len, encoder_in,
                   total_read, finalized, source_size, stats, exit_code,
                   summary_printed, error_printed, prev>>

\* let source_size = input.get_ref().metadata()?.len()
StatSourceAgain ==
    /\ pc = "stat_source2"
    /\ \/ /\ source_size' = Some(FileLen(fs[source]))
          /\ pc' = "make_stats"
          /\ UNCHANGED <<errors, failed>>
       \/ /\ Fail("stat_source2")
          /\ UNCHANGED source_size
    /\ UNCHANGED <<args, fs, file_size, input_pos, buffer, len, encoder_in,
                   total_read, finalized, target_size, stats, exit_code,
                   summary_printed, error_printed, prev>>

\* the ratio and Ok(CompressionStats { .. })
MakeStats ==
    /\ pc = "make_stats"
    /\ stats' = Append(stats, CompressionStats(source_size[1], target_size[1]))
    /\ pc' = "returned"
    /\ UNCHANGED <<args, fs, file_size, input_pos, buffer, len, encoder_in,
                   total_read, finalized, target_size, source_size, errors,
                   failed, exit_code, summary_printed, error_printed, prev>>

\* ------------------------------------------------------------------ main
\* the two println! of the banner; println! panics when the write to
\* stdout fails and the process ends with status 101 before compress_file
Banner ==
    /\ pc = "banner"
    /\ \/ /\ pc' = "check_exists"
          /\ UNCHANGED exit_code
       \/ /\ exit_code' = Some(101)
          /\ pc' = "exited"
    /\ UNCHANGED <<args, fs, file_size, input_pos, buffer, len, encoder_in,
                   total_read, finalized, target_size, source_size, stats,
                   errors, failed, summary_printed, error_printed, prev>>

\* Ok(stats) => the summary is printed and main returns; a println! whose
\* write fails panics, the summary is cut short and the status is 101
MainOk ==
    /\ pc = "returned"
    /\ stats # <<>>
    /\ \/ /\ summary_printed' = TRUE
          /\ exit_code' = Some(0)
       \/ /\ summary_printed' = FALSE
          /\ exit_code' = Some(101)
    /\ pc' = "exited"
    /\ UNCHANGED <<args, fs, file_size, input_pos, buffer, len, encoder_in,
                   total_read, finalized, target_size, source_size, stats,
                   errors, failed, error_printed, prev>>

\* variant: the error arm prints and falls through to the end of main
MainErr_NoExit ==
    /\ pc = "returned"
    /\ stats = <<>>
    /\ \/ /\ error_printed' = TRUE
          /\ exit_code' = Some(0)
       \/ /\ error_printed' = FALSE
          /\ exit_code' = Some(101)
    /\ pc' = "exited"
    /\ UNCHANGED <<args, fs, file_size, input_pos, buffer, len, encoder_in,
                   total_read, finalized, target_size, source_size, stats,
                   errors, failed, summary_printed, prev>>

\* Err(error) => the message goes to stderr and std::process::exit(1); an
\* eprintln! whose write fails panics and the status is 101
MainErr ==
    /\ pc = "returned"
    /\ stats = <<>>
    /\ \/ /\ error_printed' = TRUE
          /\ exit_code' = Some(1)
       \/ /\ error_printed' = FALSE
          /\ exit_code' = Some(101)
    /\ pc' = "exited"
    /\ UNCHANGED <<args, fs, file_size, input_pos, buffer, len, encoder_in,
                   total_read, finalized, target_size, source_size, stats,
                   errors, failed, summary_printed, prev>>

Next ==
    \/ Banner
    \/ CheckExists
    \/ OpenSource
    \/ StatSource
    \/ CreateTarget
    \/ Setup
    \/ ChunkRead
    \/ ChunkWrite
    \/ ChunkAdvance
    \/ CopyStep
    \/ Finish
    \/ StatTarget
    \/ StatSourceAgain
    \/ MakeStats
    \/ MainOk
    \/ MainErr

Spec == Init /\ [][Next]_vars

\* every statement of the sequential program is eventually executed
FairSpec == Spec /\ WF_vars(Next)

\* the tool invoked a second time on the same files with --quiet toggled
\* after a run that finished its stream, whose outcome is kept for comparison
Rerun ==
    /\ pc = "exited"
    /\ finalized
    /\ prev = None
    /\ prev' = Some([show_progress |-> show_progress, finalized |-> finalized,
                     encoder_in |-> encoder_in, out |-> fs[target]])
    /\ show_progress' = ~show_progress
    /\ fs' = fs0
    /\ pc' = "banner"
    /\ file_size' = None
    /\ input_pos' = 0
    /\ buffer' = [i \in 1..BufferLen |-> 0]
    /\ len' = 0
    /\ encoder_in' = <<>>
    /\ total_read' = None
    /\ finalized' = FALSE
    /\ target_size' = None
    /\ source_size' = None
    /\ stats' = <<>>
    /\ errors' = <<>>
    /\ failed' = "none"
    /\ exit_code' = None
    /\ summary_printed' = FALSE
    /\ error_printed' = FALSE
    /\ UNCHANGED <<fs0, source, target, compression>>

NextTwoRuns ==
    \/ Next
    \/ Rerun

SpecTwoRuns == Init /\ [][NextTwoRuns]_vars

\* ---------------------------------------------------------------- claims

\* C1: on the same source content and strength, the run with the progress
\* loop and the run with the bulk copy have fed the same byte sequence to
\* the encoder when it is finished, and leave the same destination content.
C1_ModesFeedSameBytes ==
    (prev # None /\ finalized /\ prev[1].finalized)
        => /\ prev[1].show_progress # show_progress
           /\ encoder_in = prev[1].encoder_in
           /\ fs[target] = prev[1].out

C1_Witness ==
    /\ prev # None
    /\ prev[1].finalized
    /\ show_progress
    /\ pc = "exited"
    /\ stats # <<>>
    /\ source # target
    /\ Len(encoder_in) > BufferLen

\* C2 (as claimed): whenever compress_file returns Ok, the bytes written to
\* the encoder are exactly the source content F the call started with, and
\* the destination is the finished gzip stream of F, which decompresses to F.
C2_RoundTrip ==
    stats # <<>>
        => /\ encoder_in = fs0[source].data
           /\ fs[target] = Gz(fs0[source].data, Level)

\* C3: with a missing source the job ends with InvalidInput, not IoError,
\* and the file system is what it was: no destination is created and an
\* existing one keeps its content.
C3_MissingSource ==
    fs0[source].kind = "absent"
        => /\ fs = fs0
           /\ stats = <<>>
           /\ pc \in {"banner", "check_exists", "returned", "exited"}
           /\ errors \in {<<>>, <<InvalidInput(source)>>}
           /\ pc = "returned" => errors = <<InvalidInput(source)>>
           /\ errors = <<>> => (pc \in {"banner", "check_exists"}
                                  \/ exit_code = Some(101))

C3_Witness ==
    /\ fs0[source].kind = "absent"
    /\ fs0[target].kind = "raw"
    /\ source # target
    /\ errors = <<InvalidInput(source)>>
    /\ pc = "exited"

\* C4 (as claimed): once a file system step of compress_file has failed,
\* the job has ended at once with the IoError wrapping that failure and
\* without stats.
C4_FailureIsTerminal ==
    failed # "none"
        => /\ errors = <<IoError(failed)>>
           /\ stats = <<>>
           /\ pc \in {"returned", "exited"}

\* C5: the destination size is read only in a state where the encoder has
\* already been finished, and it is the size of the finished stream.
C5_SizeReadAfterFinish ==
    [][target_size' # target_size
         => /\ finalized
            /\ target_size' = Some(FileLen(Gz(encoder_in, Level)))]_vars

C5_Witness ==
    /\ target_size # None
    /\ Len(encoder_in) > 1
    /\ stats # <<>>

\* C6 (as claimed): the stats of a zero-length source carry a finite
\* compression ratio.
C6_ZeroLengthRatioFinite ==
    \A i \in 1..Len(stats) :
        stats[i].source_size = 0 => stats[i].compression_ratio.class = "finite"

\* C7: the progress counter exists only with progress enabled, never
\* exceeds the source size read at open, changes only by the length of a
\* chunk whose write_all has succeeded, and grows strictly when it changes.
C7_ProgressCounter ==
    /\ [](~show_progress => total_read = None)
    /\ [](total_read # None
            => file_size # None /\ total_read[1] <= file_size[1])
    /\ [][(total_read # None /\ total_read' # total_read)
            => /\ pc = "loop_advance"
               /\ total_read' # None
               /\ total_read'[1] = total_read[1] + len
               /\ total_read'[1] > total_read[1]
               /\ total_read'[1] = Len(encoder_in)]_vars
    /\ [][(pc = "loop_write" /\ pc' = "loop_advance")
            => encoder_in' = encoder_in \o SubSeq(buffer, 1, len)]_vars
    /\ [][pc = "loop_advance" => total_read'[1] > total_read[1]]_vars

C7_Witness ==
    /\ total_read # None
    /\ total_read[1] > BufferLen
    /\ total_read = file_size
    /\ pc = "exited"

\* C8: the process exits with 0 exactly when compress_file returned stats
\* and the summary was printed, with 1 exactly when an error of either kind
\* was reported on stderr, and a run that exits with 1 has printed no
\* summary; the only other status is that of a print that panicked.
C8_ExitCode ==
    /\ pc # "exited" => exit_code = None
    /\ pc = "exited"
        => /\ exit_code \in {Some(0), Some(1), Some(101)}
           /\ exit_code = Some(0) <=> (stats # <<>> /\ summary_printed)
           /\ exit_code = Some(1) <=> (errors # <<>> /\ error_printed)
           /\ exit_code = Some(1) => ~summary_printed
           /\ exit_code = Some(101) => (~summary_printed /\ ~error_printed)

C8_Witness ==
    /\ pc = "exited"
    /\ errors = <<IoError("create_target")>>
    /\ error_printed
    /\ exit_code = Some(1)

\* C9 (as claimed): the source file is never changed by the job, whatever
\* the two paths are, and no file but the destination is changed.
C9_SourceUnchanged ==
    /\ fs[source] = fs0[source]
    /\ \A p \in Paths : p # target => fs[p] = fs0[p]

\* C10: every run of compress_file ends, and it ends with exactly one
\* outcome that is not changed afterwards: one stats value produced after
\* the encoder was finished, or one error.
C10_Terminates ==
    /\ (pc = "check_exists") ~> (pc = "returned")
    /\ <>(pc = "exited")
    /\ [](Len(stats) + Len(errors) <= 1)
    /\ [](pc = "returned" => Len(stats) + Len(errors) = 1)
    /\ [](stats # <<>> => finalized)
    /\ [][(pc \in {"returned", "exited"}) => UNCHANGED <<stats, errors>>]_vars

C10_Witness ==
    /\ pc = "exited"
    /\ stats # <<>>
    /\ total_read # None
    /\ total_read[1] > BufferLen
====
